---- MODULE Spec2Model ----
(***************************************************************************)
(* NeuroLens: the /predict-risk request handler with its fusion of four    *)
(* modality signals (backend/app.py, backend/main.py, backend/models.py),  *)
(* the training loops with best-checkpoint retention and the dataset       *)
(* construction that feeds them (backend/neurolens.py).                    *)
(*                                                                         *)
(* Numbers are fixed point.  A modality signal is an integer number of     *)
(* hundredths (0.55 is 55); a fused score is an integer number of 1e-5     *)
(* (0.29999 is 29999), which is also the score percentage in thousandths   *)
(* of a percent; risk_percentage, the percentage after round(.., 2), is in *)
(* hundredths of a percent (30.00 is 3000).  A CIMT regression value is in *)
(* 1e-5 mm (0.59999 mm is 59999).  The float NaN is the value NaN below,   *)
(* and every comparison with it is false, as in IEEE 754.                  *)
(***************************************************************************)
EXTENDS Integers, Sequences, FiniteSets, TLC

VARIABLES
    \* ---- the API process (app.py) and the standalone fusion (main.py)
    pc,               \* position of the running call
    entry,            \* "app": POST /predict-risk, "main": main.predict_stroke_risk
    age, SBP, DBP,    \* the call's vitals
    models_loaded,    \* app.py global flag
    tmp_file,         \* TRUE while the running request's temporary file is on disk
    calls,            \* the functions the running call has invoked so far
    eye_class, eye_conf,      \* eye classifier: arg-max class and its probability
    cimt_pred,                \* CIMT regressor output
    brain_class, brain_conf,  \* brain classifier: arg-max class and its probability
    ER, CR, BR, PR,   \* the four modality signals
    StrokeRiskScore,  \* fused score
    risk_percentage,  \* round(final_risk * 100, 2)
    risk_level,       \* "Low" | "Medium" | "High"
    status,           \* HTTP status of the response, or "returned" / "raised" (main.py)
    weight_load_error, \* the predictor whose load_state_dict exception ended the call, or ""
    \* ---- one training run (neurolens.py train_A / train_B / train_C)
    tpc,              \* position of the training run
    part,             \* "A" | "B" | "C"
    device,           \* "cuda" if torch.cuda.is_available() else "cpu"
    epochs,           \* cfg["_epochs"]
    n_train, n_val,   \* sizes of the training and validation datasets
    model_made,       \* TRUE once make_model_A / _B / _C has been called
    ep,               \* epochs completed
    best_metric,      \* best_f1 / best_mae
    best_state,       \* epoch in which the retained snapshot was taken, or None
    hist,             \* validation metric of each completed epoch
    replaced,         \* epochs in which the snapshot was replaced
    val_passes,       \* validation passes run
    saves,            \* torch.save calls made
    artifact,         \* the checkpoint file: <<>> when absent, else <<the epoch whose
                      \* weights were saved>> (<<None>> when None was saved)
    \* ---- dataset construction of one training process (neurolens.py)
    rng,              \* state of the random module's generator
    spc,              \* position of a run of scan_raw_dir
    listing,          \* the (path, label) items in the order the directories list them
    runs,             \* completed runs of scan_raw_dir on the listing
    split,            \* <<train, val>> returned by the latest run
    prev_split,       \* <<train, val>> returned by the run before it
    dpc,              \* position of train_B's dataset construction
    meta,             \* the JSON index json.load returns
    img_dir,          \* the names of the files in the image directory
    target_key,       \* cfg["_B_target"]
    tr_sids, va_sids, \* the subject ids of the two sides of the split
    ds_i,             \* subjects the running CIMTDataset.__init__ has gone through
    rows_tr, rows_va, \* self.rows of the training and the validation dataset
    log,              \* one entry per subject a dataset went through
    \* ---- one run of the inference command line (inference.py main)
    ipc,              \* position of the run
    backend_arg,      \* --backend as given: "" (not given), "torch" or "onnx"
    ort_installed,    \* TRUE when "import onnxruntime" succeeds
    args,             \* which of --retinal_img, --b_csv, --cimt_img, --brain_img are given
    csv_rows,         \* usable rows of the --b_csv file
    csv_i,            \* rows of it predicted so far
    ort_imports,      \* calls of _lazy_import_onnxruntime made
    printed,          \* the parts whose result was printed
    ierror,           \* the exception that ended the run, or ""
    \* ---- one call of load_preprocess (inference.py, models.py)
    ppc,              \* position of the call
    readable,         \* TRUE when cv2.imread can read the file
    img_h, img_w,     \* height and width of the image read
    size,             \* the target size
    nh, nw,           \* the resized height and width, None before the resize
    top, left,        \* the paste offsets, None before the paste
    pasted,           \* "" nothing pasted, "input" the input's own pixels,
                      \* "resampled" pixels cv2.resize interpolated
    prep_error        \* the exception that ended the call, or ""

apiVars == <<pc, entry, age, SBP, DBP, models_loaded, tmp_file, calls,
             eye_class, eye_conf, cimt_pred, brain_class, brain_conf,
             ER, CR, BR, PR, StrokeRiskScore, risk_percentage, risk_level, status,
             weight_load_error>>
trainVars == <<tpc, part, device, epochs, n_train, n_val, model_made, ep, best_metric,
               best_state, hist, replaced, val_passes, saves, artifact>>
scanVars == <<spc, listing, runs, split, prev_split>>
cimtVars == <<dpc, meta, img_dir, target_key, tr_sids, va_sids, ds_i, rows_tr,
              rows_va, log>>
dataVars == <<rng, scanVars, cimtVars>>
inferVars == <<ipc, backend_arg, ort_installed, args, csv_rows, csv_i,
               ort_imports, printed, ierror>>
prepVars == <<ppc, readable, img_h, img_w, size, nh, nw, top, left, pasted,
              prep_error>>
vars == <<apiVars, trainVars, dataVars, inferVars, prepVars>>

\* Python's None, and "not yet computed"
None == -1
\* IEEE NaN (a float the form fields and the regressor can carry)
NaN == -999999
\* float("inf"), and what json.load gives for the literal Infinity
Inf == 999999

IsNaN(x) == x = NaN
\* float comparisons: false as soon as one side is NaN
FLt(x, y) == ~IsNaN(x) /\ ~IsNaN(y) /\ x < y
FGt(x, y) == ~IsNaN(x) /\ ~IsNaN(y) /\ x > y
FLe(x, y) == ~IsNaN(x) /\ ~IsNaN(y) /\ x <= y
FGe(x, y) == ~IsNaN(x) /\ ~IsNaN(y) /\ x >= y

(***************************************************************************)
(* Input domains                                                           *)
(***************************************************************************)
\* ages, with both out-of-range sides and the band edges 39/40 and 59/60
Ages == {-1, 0, 39, 40, 45, 59, 60, 120, 121}
\* systolic / diastolic pressures in mmHg of a request, with both
\* out-of-range sides and NaN
SBPs == {49, 50, 130, 300, 301, NaN}
DBPs == {29, 30, 85, 160, 190, 200, 201, NaN}
\* what main.predict_stroke_risk is called with (it validates nothing)
MainAges == {39, 40, 121}
MainSBPs == {130, 500, NaN}
MainDBPs == {85, 201}
\* models.py:20 class_names, in the order of the network's outputs
EyeClassNames == <<"NORMAL", "RAO", "CRVO", "BRVO">>
\* models.py:173 C_CLASSES
C_CLASSES == <<"normal", "abnormal">>
\* arg-max probabilities (percent)
Confs == {51, 99}
\* CIMT regressor outputs in 1e-5 mm
CimtPreds == {-10000, 0, 55000, 59999, 60000, 80000, 80001, 120000, NaN}

(***************************************************************************)
(* models.py: the per-modality mappings                                    *)
(***************************************************************************)
\* mutant: the scaled value weighted by the arg-max probability
EyeScaledByConfidence(predicted_class, conf) ==
    (conf * (IF predicted_class = "NORMAL" THEN 10
             ELSE IF predicted_class = "RAO" THEN 100
             ELSE IF predicted_class = "CRVO" THEN 80
             ELSE IF predicted_class = "BRVO" THEN 50
             ELSE 0)) \div 100

\* predict_eye_stroke: class -> scaled value; the probability is not read
EyeScaled(predicted_class, conf) ==
    IF predicted_class = "NORMAL" THEN 10
    ELSE IF predicted_class = "RAO" THEN 100
    ELSE IF predicted_class = "CRVO" THEN 80
    ELSE IF predicted_class = "BRVO" THEN 50
    ELSE 0

\* mutant: the regression value itself is returned (in hundredths of a mm)
CimtScaledRaw(v) == IF IsNaN(v) THEN 0 ELSE v \div 1000

\* predict_cimt: regression value -> scaled value
CimtScaled(v) ==
    IF FLt(0, v) /\ FLt(v, 60000) THEN 20
    ELSE IF FLe(60000, v) /\ FLe(v, 80000) THEN 55
    ELSE IF FGt(v, 80000) THEN 90
    ELSE 0

\* mutant: only "normal" is mapped
BrainScaledNormalOnly(pred_class, conf) ==
    IF pred_class = "normal" THEN 20 ELSE None

\* predict_brain_stroke: class -> scaled value; falls off the end (None) otherwise
BrainScaled(pred_class, conf) ==
    IF pred_class = "normal" THEN 20
    ELSE IF pred_class = "abnormal" THEN 90
    ELSE None

\* calculate_ePWV_scale.  With M = 5*MBP = 3*DBP + 2*SBP,
\*   5e8 * ePWV = 1000 * (5*EA(age) + ECq(age)*M) + ECr(age)*M
\* where EA is the MBP-free part in 1e-5 and 1000*ECq + ECr the MBP coefficient
\* in 1e-8, 0 <= ECr < 1000; the split keeps the products within 32 bits.
\* mutant: the arithmetic mean of the two pressures
MBP5Mean(s, d) == (5 * (s + d)) \div 2

MBP5(s, d) == 3 * d + 2 * s
EA(a) == 58700 - 40200 * a + 456 * a * a
EC(a) == 317600 * a - 2621 * a * a - 1832000
ECq(a) == EC(a) \div 1000
ECr(a) == EC(a) % 1000
EN(a, s, d) == 5 * EA(a) + ECq(a) * MBP5(s, d)
ER1000(a, s, d) == ECr(a) * MBP5(s, d)
\* ePWV < t, ePWV <= t for an integer threshold t (exact)
EpwvLt(a, s, d, t) ==
    /\ ~IsNaN(s) /\ ~IsNaN(d)
    /\ EN(a, s, d) + (ER1000(a, s, d) \div 1000) < t * 500000
EpwvLe(a, s, d, t) ==
    /\ ~IsNaN(s) /\ ~IsNaN(d)
    /\ EN(a, s, d) + ((ER1000(a, s, d) + 999) \div 1000) <= t * 500000
EpwvGe(a, s, d, t) == ~IsNaN(s) /\ ~IsNaN(d) /\ ~EpwvLt(a, s, d, t)
EpwvGt(a, s, d, t) == ~IsNaN(s) /\ ~IsNaN(d) /\ ~EpwvLe(a, s, d, t)

\* mutant: the first band takes age 40 in ("age <= 40")
BandLowThrough40(a) == IF a <= 40 THEN 7 ELSE IF 40 <= a /\ a <= 59 THEN 9 ELSE 11

\* the thresholds of the age band
BandLow(a) == IF a < 40 THEN 7 ELSE IF 40 <= a /\ a <= 59 THEN 9 ELSE 11
BandHigh(a) == IF a < 40 THEN 8 ELSE IF 40 <= a /\ a <= 59 THEN 10 ELSE 12

EpwvBucket(a, s, d, lo, hi) ==
    IF EpwvLt(a, s, d, lo) THEN 20
    ELSE IF EpwvGe(a, s, d, lo) /\ EpwvLe(a, s, d, hi) THEN 55
    ELSE 90

calculate_ePWV_scale(a, s, d) == EpwvBucket(a, s, d, BandLow(a), BandHigh(a))

(***************************************************************************)
(* app.py / main.py: fusion, validation, tier                              *)
(***************************************************************************)
\* mutant: the brain term subtracted
FuseAppBrainSubtracted(er, cr, br, pr) == 10 * (22 * er + 35 * cr - 10 * br + 33 * pr)

\* app.py:73  0.22*ER + 0.35*CR + 0.10*BR + 0.33*PR, in 1e-5
FuseApp(er, cr, br, pr) == 10 * (22 * er + 35 * cr + 10 * br + 33 * pr)
\* main.py:27  0.33*ER + 0.33*CR + 0.33*PR, in 1e-5
FuseMain(er, cr, pr) == 10 * (33 * er + 33 * cr + 33 * pr)

\* app.py:106-116, the detail of the HTTP 400 raised, or "ok"
Validate(a, s, d) ==
    IF a < 0 \/ a > 120 THEN "age"
    ELSE IF FLt(s, 50) \/ FGt(s, 300) THEN "systolic"
    ELSE IF FLt(d, 30) \/ FGt(d, 200) THEN "diastolic"
    ELSE IF FGe(d, s) THEN "order"
    ELSE "ok"

\* round(final_risk * 100, 2): the percentage in thousandths -> hundredths.
\* A decimal tie (last digit 5) goes the way the nearest double lies, which
\* differs from value to value (round(29.995, 2) = 30.0, round(59.995, 2) =
\* 59.99): both outcomes are allowed.
Round2(p) ==
    IF p % 10 < 5 THEN {p \div 10}
    ELSE IF p % 10 > 5 THEN {p \div 10 + 1}
    ELSE {p \div 10, p \div 10 + 1}

\* mutant: "<=" for "<" at both tier boundaries
RiskLevelInclusive(rp) ==
    IF rp <= 3000 THEN "Low"
    ELSE IF rp <= 6000 THEN "Medium"
    ELSE "High"

\* app.py:132-140
RiskLevel(rp) ==
    IF rp < 3000 THEN "Low"
    ELSE IF rp < 6000 THEN "Medium"
    ELSE "High"

(***************************************************************************)
(* The API process: POST /predict-risk (app.py predict_risk) and the       *)
(* standalone main.predict_stroke_risk, one call at a time                 *)
(* (start_server.py runs a single worker).                                 *)
(***************************************************************************)
ApiInit ==
    /\ pc = "idle" /\ entry = "app"
    /\ age = 0 /\ SBP = 0 /\ DBP = 0
    /\ models_loaded = FALSE
    /\ tmp_file = FALSE
    /\ calls = {}
    /\ eye_class = "" /\ eye_conf = None
    /\ cimt_pred = None
    /\ brain_class = "" /\ brain_conf = None
    /\ ER = None /\ CR = None /\ BR = None /\ PR = None
    /\ StrokeRiskScore = None
    /\ risk_percentage = None
    /\ risk_level = ""
    /\ status = "none"
    /\ weight_load_error = ""

\* what a call starts from: nothing predicted yet
FreshCall ==
    /\ calls' = {}
    /\ eye_class' = "" /\ eye_conf' = None
    /\ cimt_pred' = None
    /\ brain_class' = "" /\ brain_conf' = None
    /\ ER' = None /\ CR' = None /\ BR' = None /\ PR' = None
    /\ StrokeRiskScore' = None
    /\ risk_percentage' = None
    /\ risk_level' = ""
    /\ weight_load_error' = ""

predictions == <<eye_class, eye_conf, cimt_pred, brain_class, brain_conf,
                 ER, CR, BR, PR, StrokeRiskScore, risk_percentage, risk_level,
                 weight_load_error>>

\* model.load_state_dict(state, strict): with strict it raises RuntimeError
\* when the parameter names of the checkpoint are not exactly the model's;
\* without it the names that match are loaded
LoadStateDict(strict, names_match) ==
    IF strict /\ ~names_match THEN "raise" ELSE "loaded"

\* models.py:113 load_state_dict(torch.load(..)): strict is the default and
\* nothing catches the exception
LoadStrictOnly(names_match) == LoadStateDict(TRUE, names_match)

\* models.py:210-213, inference.py:151-154, :167-170, :183-186:
\* try strict=True, except Exception: strict=False
LoadTolerant(names_match) ==
    IF LoadStateDict(TRUE, names_match) = "raise"
    THEN LoadStateDict(FALSE, names_match)
    ELSE "loaded"

\* An exception inside predict_stroke_risk.  app.py:83-84 turns it into an
\* HTTPException(500), the finally of app.py:160-163 unlinks the temporary
\* file and app.py:165-166 re-raises; main.py lets it propagate.
Raise ==
    /\ pc' = "done"
    /\ status' = IF entry = "app" THEN "500" ELSE "raised"
    /\ tmp_file' = FALSE

\* app.py:95-116: the request arrives and is validated
PredictRiskValidate ==
    /\ pc = "idle"
    /\ \E a \in Ages, s \in SBPs, d \in DBPs :
        /\ age' = a /\ SBP' = s /\ DBP' = d
        /\ IF Validate(a, s, d) = "ok"
           THEN pc' = "upload" /\ status' = "none"
           ELSE pc' = "done" /\ status' = "400"
    /\ entry' = "app"
    /\ UNCHANGED <<models_loaded, tmp_file, calls, predictions>>
    /\ UNCHANGED <<trainVars, dataVars, inferVars, prepVars>>

\* app.py:119-122: the temporary file is created (delete=False), the upload
\* is read and written to it.  A failing read leaves the with block by an
\* exception that app.py:167-168 turns into a 500; nothing unlinks the file.
SaveUpload ==
    /\ pc = "upload"
    /\ tmp_file' = TRUE
    /\ calls' = calls \cup {"NamedTemporaryFile"}
    /\ \/ pc' = "load" /\ status' = status
       \/ pc' = "done" /\ status' = "500"
    /\ UNCHANGED <<entry, age, SBP, DBP, models_loaded, predictions>>
    /\ UNCHANGED <<trainVars, dataVars, inferVars, prepVars>>

\* mutant: the import is attempted whatever the flag says
NeedsImportAlways(loaded) == TRUE

\* app.py:17 "if not models_loaded"
NeedsImport(loaded) == ~loaded

\* app.py:15-28 load_models, called at app.py:64; "import models" in calls
\* records that this call went through the from-import of :19
load_models ==
    /\ pc = "load"
    /\ IF ~NeedsImport(models_loaded)
       THEN /\ calls' = calls \cup {"load_models"}
            /\ pc' = "eye"
            /\ UNCHANGED <<models_loaded, status, tmp_file>>
       ELSE /\ calls' = calls \cup {"load_models", "import models"}
            /\ \/ /\ models_loaded' = TRUE  \* the import succeeds
                  /\ pc' = "eye"
                  /\ UNCHANGED <<status, tmp_file>>
               \/ /\ Raise                  \* the import raises; re-raised at :28
                  /\ UNCHANGED models_loaded
    /\ UNCHANGED <<entry, age, SBP, DBP, predictions>>
    /\ UNCHANGED <<trainVars, dataVars, inferVars, prepVars>>

\* main.py:7: the standalone function is called with whatever the caller has
MainPredictStrokeRisk ==
    /\ pc = "idle"
    /\ \E a \in MainAges, s \in MainSBPs, d \in MainDBPs :
        age' = a /\ SBP' = s /\ DBP' = d
    /\ entry' = "main"
    /\ pc' = "eye"
    /\ status' = "none"
    /\ UNCHANGED <<models_loaded, tmp_file, calls, predictions>>
    /\ UNCHANGED <<trainVars, dataVars, inferVars, prepVars>>

\* models.py:20-56 predict_eye_stroke (app.py:67, main.py:22)
predict_eye_stroke ==
    /\ pc = "eye"
    /\ calls' = calls \cup {"predict_eye_stroke"}
    /\ \/ /\ \E i \in DOMAIN EyeClassNames, c \in Confs :
               /\ eye_class' = EyeClassNames[i]
               /\ eye_conf' = c
               /\ ER' = EyeScaled(EyeClassNames[i], c)
          /\ pc' = "cimt"
          /\ UNCHANGED <<status, tmp_file>>
       \/ /\ Raise
          /\ UNCHANGED <<eye_class, eye_conf, ER>>
    /\ UNCHANGED <<entry, age, SBP, DBP, models_loaded, cimt_pred, brain_class,
                   brain_conf, CR, BR, PR, StrokeRiskScore, risk_percentage,
                   risk_level, weight_load_error>>
    /\ UNCHANGED <<trainVars, dataVars, inferVars, prepVars>>

\* models.py:64-158 predict_cimt (app.py:68, main.py:23): the checkpoint is
\* loaded at :113, its parameter names matching the model's or not; then the
\* image is read and the regressor run, which can raise as well
predict_cimt ==
    /\ pc = "cimt"
    /\ calls' = calls \cup {"predict_cimt"}
    /\ \E names_match \in BOOLEAN :
        IF LoadStrictOnly(names_match) = "raise"
        THEN /\ Raise
             /\ weight_load_error' = "predict_cimt"
             /\ UNCHANGED <<cimt_pred, CR>>
        ELSE /\ \/ /\ \E v \in CimtPreds :
                        /\ cimt_pred' = v
                        /\ CR' = CimtScaled(v)
                   /\ pc' = IF entry = "app" THEN "brain" ELSE "epwv"
                   /\ UNCHANGED <<status, tmp_file>>
                \/ /\ Raise
                   /\ UNCHANGED <<cimt_pred, CR>>
             /\ UNCHANGED weight_load_error
    /\ UNCHANGED <<entry, age, SBP, DBP, models_loaded, eye_class, eye_conf,
                   brain_class, brain_conf, ER, BR, PR, StrokeRiskScore,
                   risk_percentage, risk_level>>
    /\ UNCHANGED <<trainVars, dataVars, inferVars, prepVars>>

\* models.py:166-230 predict_brain_stroke (app.py:69): the image is read,
\* the checkpoint loaded at :209-213, the classifier run
predict_brain_stroke ==
    /\ pc = "brain"
    /\ calls' = calls \cup {"predict_brain_stroke"}
    /\ \E names_match \in BOOLEAN :
        IF LoadTolerant(names_match) = "raise"
        THEN /\ Raise
             /\ weight_load_error' = "predict_brain_stroke"
             /\ UNCHANGED <<brain_class, brain_conf, BR>>
        ELSE /\ \/ /\ \E i \in DOMAIN C_CLASSES, c \in Confs :
                        /\ brain_class' = C_CLASSES[i]
                        /\ brain_conf' = c
                        /\ BR' = BrainScaled(C_CLASSES[i], c)
                   /\ pc' = "epwv"
                   /\ UNCHANGED <<status, tmp_file>>
                \/ /\ Raise
                   /\ UNCHANGED <<brain_class, brain_conf, BR>>
             /\ UNCHANGED weight_load_error
    /\ UNCHANGED <<entry, age, SBP, DBP, models_loaded, eye_class, eye_conf,
                   cimt_pred, ER, CR, PR, StrokeRiskScore, risk_percentage,
                   risk_level>>
    /\ UNCHANGED <<trainVars, dataVars, inferVars, prepVars>>

\* app.py:70 / main.py:24: PR = calculate_ePWV_scale(age, SBP, DBP)
CalculateEPWV ==
    /\ pc = "epwv"
    /\ calls' = calls \cup {"calculate_ePWV_scale"}
    /\ PR' = calculate_ePWV_scale(age, SBP, DBP)
    /\ pc' = "fuse"
    /\ UNCHANGED <<entry, age, SBP, DBP, models_loaded, tmp_file, status,
                   eye_class, eye_conf, cimt_pred, brain_class, brain_conf,
                   ER, CR, BR, StrokeRiskScore, risk_percentage, risk_level,
                   weight_load_error>>
    /\ UNCHANGED <<trainVars, dataVars, inferVars, prepVars>>

\* the weighted sum and the return of predict_stroke_risk: app.py:73-82
\* (BR = None would raise a TypeError there), main.py:27-29
predict_stroke_risk ==
    /\ pc = "fuse"
    /\ IF entry = "app"
       THEN IF BR = None
            THEN Raise /\ UNCHANGED StrokeRiskScore
            ELSE /\ StrokeRiskScore' = FuseApp(ER, CR, BR, PR)
                 /\ pc' = "tier"
                 /\ UNCHANGED <<status, tmp_file>>
       ELSE /\ StrokeRiskScore' = FuseMain(ER, CR, PR)
            /\ pc' = "done"
            /\ status' = "returned"
            /\ UNCHANGED tmp_file
    /\ UNCHANGED <<entry, age, SBP, DBP, models_loaded, calls, eye_class,
                   eye_conf, cimt_pred, brain_class, brain_conf, ER, CR, BR, PR,
                   risk_percentage, risk_level, weight_load_error>>
    /\ UNCHANGED <<trainVars, dataVars, inferVars, prepVars>>

\* app.py:128-163: percentage, tier, response, and the finally that unlinks
\* the temporary file
Respond ==
    /\ pc = "tier"
    /\ \E rp \in Round2(StrokeRiskScore) :
        /\ risk_percentage' = rp
        /\ risk_level' = RiskLevel(rp)
    /\ tmp_file' = FALSE
    /\ status' = "200"
    /\ pc' = "done"
    /\ UNCHANGED <<entry, age, SBP, DBP, models_loaded, calls, eye_class,
                   eye_conf, cimt_pred, brain_class, brain_conf, ER, CR, BR, PR,
                   StrokeRiskScore, weight_load_error>>
    /\ UNCHANGED <<trainVars, dataVars, inferVars, prepVars>>

\* the call is over: its locals are gone, the process waits for the next one
\* (the global flag and whatever is on disk stay)
NextCall ==
    /\ pc = "done"
    /\ pc' = "idle"
    /\ entry' = "app"
    /\ age' = 0 /\ SBP' = 0 /\ DBP' = 0
    /\ status' = "none"
    /\ FreshCall
    /\ tmp_file' = FALSE      \* the next request's file is a new one
    /\ UNCHANGED models_loaded
    /\ UNCHANGED <<trainVars, dataVars, inferVars, prepVars>>

Next ==
    \/ PredictRiskValidate
    \/ SaveUpload
    \/ load_models
    \/ MainPredictStrokeRisk
    \/ predict_eye_stroke
    \/ predict_cimt
    \/ predict_brain_stroke
    \/ CalculateEPWV
    \/ predict_stroke_risk
    \/ Respond
    \/ NextCall

(***************************************************************************)
(* neurolens.py: one training run, train_A / train_B / train_C             *)
(***************************************************************************)
\* largest cfg["_epochs"] explored
MaxEpochs == 4
\* per-epoch validation metrics: macro-F1 in tenths for parts A and C
\* (0.0, 0.5, .. 0.8)
Metrics == {0, 5, 6, 7, 8}
\* per-epoch validation MAE of part B in whole units: small errors, and errors
\* at and above the initial best_mae (targets are whatever floats the JSON
\* index holds)
MaeValues == {0, 5, 6, 7, 1000000000, 1500000000}
\* dataset sizes that matter: empty or not
Sizes == {0, 2}

\* neurolens.py:322, :469 best_f1 = -1.0 (in tenths); :397 best_mae = 1e9
InitBest(p) == IF p = "B" THEN 1000000000 ELSE -10

\* mutant: a tie replaces the snapshot too
ImprovesOrTies(p, m, best) == IF p = "B" THEN m <= best ELSE m >= best

\* neurolens.py:348, :494 "f1 > best_f1"; :422 "mae < best_mae"
Improves(p, m, best) == IF p = "B" THEN m < best ELSE m > best

\* mutant: range(1, cfg["_epochs"]), one epoch short
RangeOneShort(e, E) == e + 1 < E

\* neurolens.py:323, :398, :470 "for ep in range(1, cfg["_epochs"] + 1)":
\* the loop has another iteration after e completed epochs
RangeHasNext(e, E) == e + 1 < E + 1

\* neurolens.py:345, :419, :491: the metric is 0.0 when there is no validation
\* sample, else what the epoch's validation pass measures
EpochMetrics(p, nv) ==
    IF nv > 0 THEN (IF p = "B" THEN MaeValues ELSE Metrics) ELSE {0}

\* mutant: the emptiness test is never true
NoTrainingDataIgnored(nt) == nt < 0

\* neurolens.py:292, :440 "len(tr_items) == 0"; :384 "len(ds_tr) == 0"
NoTrainingData(nt) == nt = 0

\* neurolens.py:350, :424, :496 best_state = {k: v.cpu() for k, v in
\* model.state_dict().items()}: state_dict() hands out tensors that share the
\* parameters' storage, and v.cpu() copies only when v is on another device.
\* The weights a snapshot taken in epoch "taken" holds after "now" epochs: on
\* cuda those of epoch "taken"; on cpu the snapshot is the live parameters,
\* which the optimizer updates in place
SnapshotHolds(dev, taken, now) ==
    IF taken = None THEN None
    ELSE IF dev = "cpu" THEN now ELSE taken

TrainIdle ==
    /\ tpc = "idle" /\ part = "A" /\ device = "cpu"
    /\ epochs = 0 /\ n_train = 0 /\ n_val = 0
    /\ model_made = FALSE
    /\ ep = 0 /\ best_metric = None /\ best_state = None /\ hist = <<>>
    /\ replaced = {} /\ val_passes = 0 /\ saves = 0 /\ artifact = <<>>

\* train_X up to its loop: datasets are built; an empty training set ends the
\* process (sys.exit(1), neurolens.py:292-294, :384-386, :440-442); otherwise
\* the model is made (:311, :393, :459) and best_* initialised (:322, :397,
\* :469)
TrainStart ==
    /\ tpc = "idle"
    /\ \E p \in {"A", "B", "C"}, dev \in {"cuda", "cpu"}, E \in 0..MaxEpochs,
          nt \in Sizes, nv \in Sizes :
        /\ part' = p /\ device' = dev
        /\ epochs' = E /\ n_train' = nt /\ n_val' = nv
        /\ IF NoTrainingData(nt)
           THEN tpc' = "exit" /\ UNCHANGED <<model_made, best_metric, best_state>>
           ELSE /\ tpc' = "loop"
                /\ model_made' = TRUE
                /\ best_metric' = InitBest(p)
                /\ best_state' = None
    /\ UNCHANGED <<ep, hist, replaced, val_passes, saves, artifact>>
    /\ UNCHANGED <<apiVars, dataVars, inferVars, prepVars>>

\* one iteration of the epoch loop: the training pass, the validation pass,
\* the metric, and the snapshot kept when it improves
\* (neurolens.py:323-350, :398-424, :470-496)
TrainEpoch ==
    /\ tpc = "loop"
    /\ RangeHasNext(ep, epochs)
    /\ ep' = ep + 1
    /\ val_passes' = val_passes + 1
    /\ \E m \in EpochMetrics(part, n_val) :
        /\ hist' = Append(hist, m)
        /\ IF Improves(part, m, best_metric)
           THEN /\ best_metric' = m
                /\ best_state' = ep + 1
                /\ replaced' = replaced \cup {ep + 1}
           ELSE UNCHANGED <<best_metric, best_state, replaced>>
    /\ UNCHANGED <<tpc, part, device, epochs, n_train, n_val, model_made, saves,
                   artifact>>
    /\ UNCHANGED <<apiVars, dataVars, inferVars, prepVars>>

\* after the loop: torch.save(best_state, out) (neurolens.py:352-353,
\* :426-428, :498-499)
TrainSave ==
    /\ tpc = "loop"
    /\ ~RangeHasNext(ep, epochs)
    /\ saves' = saves + 1
    /\ artifact' = <<SnapshotHolds(device, best_state, ep)>>
    /\ tpc' = "saved"
    /\ UNCHANGED <<part, device, epochs, n_train, n_val, model_made, ep, best_metric,
                   best_state, hist, replaced, val_passes>>
    /\ UNCHANGED <<apiVars, dataVars, inferVars, prepVars>>

TrainNext ==
    \/ TrainStart
    \/ TrainEpoch
    \/ TrainSave

\* no dataset is being built
DataIdle ==
    /\ rng = "os"
    /\ spc = "idle" /\ listing = <<>> /\ runs = 0
    /\ split = <<<<>>, <<>>>> /\ prev_split = <<<<>>, <<>>>>
    /\ dpc = "idle" /\ meta = [form |-> "other", items |-> <<>>]
    /\ img_dir = {} /\ target_key = "thickness"
    /\ tr_sids = <<>> /\ va_sids = <<>> /\ ds_i = 0
    /\ rows_tr = <<>> /\ rows_va = <<>> /\ log = <<>>

\* no inference run has started
InferIdle ==
    /\ ipc = "idle" /\ backend_arg = "" /\ ort_installed = FALSE
    /\ args = {} /\ csv_rows = 0 /\ csv_i = 0
    /\ ort_imports = 0 /\ printed = {} /\ ierror = ""

\* no image is being preprocessed
PrepIdle ==
    /\ ppc = "idle" /\ readable = FALSE
    /\ img_h = 1 /\ img_w = 1 /\ size = 512
    /\ nh = None /\ nw = None /\ top = None /\ left = None
    /\ pasted = "" /\ prep_error = ""

Init == ApiInit /\ TrainIdle /\ DataIdle /\ InferIdle /\ PrepIdle

Spec == Init /\ [][Next]_vars

SpecTrain == Init /\ [][TrainNext]_vars

(***************************************************************************)
(* The tier computation of predict_risk (app.py:128-140) as a function of  *)
(* the fused score it is handed: the handler stands right after            *)
(* predict_stroke_risk returned, with any score in the two windows around  *)
(* the tier boundaries.                                                    *)
(***************************************************************************)
TierScores == (29980..30020) \cup (59980..60020) \cup {0, 29000, 45000, 100000}

TierInit ==
    /\ TrainIdle /\ DataIdle /\ InferIdle /\ PrepIdle
    /\ pc = "tier" /\ entry = "app"
    /\ age = 45 /\ SBP = 130 /\ DBP = 85
    /\ models_loaded = TRUE
    /\ tmp_file = TRUE
    /\ calls = {"NamedTemporaryFile", "load_models", "predict_eye_stroke",
                "predict_cimt", "predict_brain_stroke", "calculate_ePWV_scale"}
    /\ eye_class = "" /\ eye_conf = None
    /\ cimt_pred = None
    /\ brain_class = "" /\ brain_conf = None
    /\ ER = None /\ CR = None /\ BR = None /\ PR = None
    /\ StrokeRiskScore \in TierScores
    /\ risk_percentage = None
    /\ risk_level = ""
    /\ status = "none"
    /\ weight_load_error = ""

SpecTier == TierInit /\ [][Respond]_vars

(***************************************************************************)
(* Dataset construction (backend/neurolens.py): the seeded 80/20 split of  *)
(* scan_raw_dir and subject_splits_from_json, and the rows CIMTDataset     *)
(* builds from a JSON index and an image directory.                        *)
(*                                                                         *)
(* A JSON value is a pair <<type, text>>: <<"num", "0.7">> is the number   *)
(* 0.7, <<"str", "0.7">> the string "0.7", PyNone is null / Python's None. *)
(* A JSON object is a function from its keys to values, so that a key can  *)
(* be missing, present with null, or present with a value.  A regression   *)
(* target is in 1e-5 mm, as a CIMT value above.                            *)
(***************************************************************************)
MaxItems == 5
MaxRuns == 3
MaxSubjects == 3

PyNone == <<"none", "">>
Num(t) == <<"num", t>>
Str(t) == <<"str", t>>

\* dict.get(k): the value, or None when the key is missing
Get(m, k) == IF k \in DOMAIN m THEN m[k] ELSE PyNone

\* dict.get(k, d)
GetOr(m, k, d) == IF k \in DOMAIN m THEN m[k] ELSE d

\* Python truth value of a JSON value: None, 0, 0.0 and "" are false
Truthy(v) ==
    CASE v[1] = "none" -> FALSE
      [] v[1] = "num" -> v[2] \notin {"0", "0.0"}
      [] v[1] = "str" -> v[2] # ""

\* Python's "a or b"
Or(a, b) == IF Truthy(a) THEN a ELSE b

\* str(v): str(1) and str("1") are both "1", str(None) is "None"
PyStr(v) == IF v[1] = "none" THEN "None" ELSE v[2]

\* the decimal texts of the list indices enumerate() hands out
IndexText(i) ==
    CASE i = 0 -> "0" [] i = 1 -> "1" [] i = 2 -> "2" [] i = 3 -> "3"
      [] i = 4 -> "4" [] OTHER -> "5"

\* the texts float() parses, and what it returns for them
FloatTexts == {"0", "0.0", "0.65", "0.7", "0.9", "1", "nan", "inf"}
FloatOfText(t) ==
    CASE t \in {"0", "0.0"} -> 0
      [] t = "0.65" -> 65000
      [] t = "0.7" -> 70000
      [] t = "0.9" -> 90000
      [] t = "1" -> 100000
      [] t = "nan" -> NaN
      [] t = "inf" -> Inf

\* float(v) raises TypeError for None and ValueError for a string that is
\* not a number
FloatRaises(v) ==
    \/ v[1] = "none"
    \/ v[1] = "str" /\ v[2] \notin FloatTexts

\* ---- random.seed / random.shuffle
\* The generator of a process is "os" (seeded from the operating system, so
\* its draws are unknown) until random.seed(42) puts it in the state
\* "seed42"; after a shuffle it is "used".

\* mutant: random.seed(42) left out
SeedSkipped(r) == r

\* neurolens.py:164, :366 random.seed(42)
Seed42(r) == "seed42"

\* the draws j = randbelow(i + 1), i = n-1 down to 1, that random.shuffle of
\* an n-element list makes right after random.seed(42) (CPython's Mersenne
\* Twister)
Draws42(n) ==
    CASE n <= 1 -> <<>>
      [] n = 2 -> <<0>>
      [] n = 3 -> <<2, 0>>
      [] n = 4 -> <<0, 0, 1>>
      [] n = 5 -> <<0, 0, 2, 1>>
      [] n = 6 -> <<5, 0, 0, 2, 1>>
      [] OTHER -> <<5, 0, 0, 2, 0, 0>>

\* every sequence of draws a shuffle of n elements can make
AllDraws(n) ==
    IF n <= 1 THEN {<<>>}
    ELSE {d \in [1..(n - 1) -> 0..(n - 1)] : \A k \in 1..(n - 1) : d[k] <= n - k}

Draws(r, n) == IF r = "seed42" THEN {Draws42(n)} ELSE AllDraws(n)

\* x[i], x[j] = x[j], x[i] (0-based i, j)
Swap(x, i, j) ==
    [k \in 1..Len(x) |-> IF k = i + 1 THEN x[j + 1]
                         ELSE IF k = j + 1 THEN x[i + 1] ELSE x[k]]

\* random.shuffle: for i in reversed(range(1, len(x))): swap x[i], x[j]
RECURSIVE ShuffleFrom(_, _, _)
ShuffleFrom(x, d, k) ==
    IF k > Len(d) THEN x
    ELSE ShuffleFrom(Swap(x, Len(x) - k, d[k]), d, k + 1)

Shuffle(x, d) == ShuffleFrom(x, d, 1)

\* neurolens.py:166, :368 cut = int(len(items) * train_ratio) with
\* train_ratio = 0.8: the float product n * 0.8 truncates to floor(8n/10)
Cut(n) == (n * 8) \div 10

\* items[:cut], items[cut:]
SplitAt(x, cut) == <<SubSeq(x, 1, cut), SubSeq(x, cut + 1, Len(x))>>

Range(x) == {x[i] : i \in 1..Len(x)}

\* ---- scan_raw_dir
\* the order in which the class directories list their image files: any
\* order of n distinct files
Listings ==
    UNION {{x \in [1..n -> 1..n] : \A i, j \in 1..n : x[i] = x[j] => i = j} :
           n \in 0..MaxItems}

ScanInit ==
    /\ ApiInit /\ TrainIdle /\ InferIdle /\ PrepIdle
    /\ rng = "os"
    /\ spc = "start" /\ listing \in Listings /\ runs = 0
    /\ split = <<<<>>, <<>>>> /\ prev_split = <<<<>>, <<>>>>
    /\ dpc = "idle" /\ meta = [form |-> "other", items |-> <<>>]
    /\ img_dir = {} /\ target_key = "thickness"
    /\ tr_sids = <<>> /\ va_sids = <<>> /\ ds_i = 0
    /\ rows_tr = <<>> /\ rows_va = <<>> /\ log = <<>>

\* a training process for part A or C starts (python neurolens.py train):
\* importing random seeds the generator from the operating system
StartProcess ==
    /\ spc \in {"start", "done"}
    /\ runs < MaxRuns
    /\ rng' = "os"
    /\ spc' = "scan"
    /\ UNCHANGED <<listing, runs, split, prev_split>>
    /\ UNCHANGED cimtVars
    /\ UNCHANGED <<apiVars, trainVars, inferVars, prepVars>>

\* scan_raw_dir(root, classes, 0.8) on the listing (neurolens.py:154-167)
scan_raw_dir ==
    /\ spc = "scan"
    /\ \E d \in Draws(Seed42(rng), Len(listing)) :
        LET items == Shuffle(listing, d)
        IN  split' = SplitAt(items, Cut(Len(items)))
    /\ prev_split' = split
    /\ runs' = runs + 1
    /\ rng' = "used"
    /\ spc' = "done"
    /\ UNCHANGED listing
    /\ UNCHANGED cimtVars
    /\ UNCHANGED <<apiVars, trainVars, inferVars, prepVars>>

ScanNext ==
    \/ StartProcess
    \/ scan_raw_dir

SpecScan == ScanInit /\ [][ScanNext]_vars

\* ---- CIMTDataset and subject_splits_from_json
\* neurolens.py:203 the record keys tried for image file names, in order
ImageKeys ==
    <<"left_eye", "right_eye", "left_image", "right_image", "image", "img",
      "fundus">>

\* neurolens.py:217 the fallback file name suffixes, in order
Suffixes == <<"_L.png", "_R.png", "_L.jpg", "_R.jpg", ".png", ".jpg", ".jpeg">>

\* neurolens.py:195 the first true value of the or-chain, 0.0 when there is
\* none
RawTarget(m, tk) ==
    Or(Or(Or(Or(Get(m, tk), Get(m, "thickness_mm")), Get(m, "CIMT")),
          Get(m, "cimt_mm")),
       Num("0.0"))

\* float(cimt) for a value float() accepts
FloatOf(v) == FloatOfText(v[2])

\* neurolens.py:202-206 the values of the image keys that are non-empty
\* strings, in key order
RECURSIVE CandidatesFrom(_, _)
CandidatesFrom(m, i) ==
    IF i > Len(ImageKeys) THEN <<>>
    ELSE LET v == Get(m, ImageKeys[i])
         IN  (IF v[1] = "str" /\ v[2] # "" THEN <<v[2]>> ELSE <<>>)
             \o CandidatesFrom(m, i + 1)

Candidates(m) == CandidatesFrom(m, 1)

\* mutant: the file is taken to exist without looking
ExistsUnchecked(dir, fn) == TRUE

\* neurolens.py:211, :219 (img_dir / fn).exists()
Exists(dir, fn) == fn \in dir

\* neurolens.py:208-213 one row for every candidate that exists
RECURSIVE CandidateRows(_, _, _, _)
CandidateRows(dir, c, cimt, i) ==
    IF i > Len(c) THEN <<>>
    ELSE (IF Exists(dir, c[i]) THEN <<<<c[i], cimt>>>> ELSE <<>>)
         \o CandidateRows(dir, c, cimt, i + 1)

\* neurolens.py:215-221 one row for the first of <sid><suffix> that exists
RECURSIVE FallbackRows(_, _, _, _)
FallbackRows(dir, sid, cimt, i) ==
    IF i > Len(Suffixes) THEN <<>>
    ELSE IF Exists(dir, sid \o Suffixes[i])
         THEN <<<<sid \o Suffixes[i], cimt>>>>
         ELSE FallbackRows(dir, sid, cimt, i + 1)

\* mutant: the fallback is consulted whatever the candidates gave
ImageRowsFallbackAlways(m, sid, dir, cimt) ==
    CandidateRows(dir, Candidates(m), cimt, 1) \o FallbackRows(dir, sid, cimt, 1)

\* neurolens.py:201-221 the rows of one subject whose target is cimt
ImageRows(m, sid, dir, cimt) ==
    LET rows == CandidateRows(dir, Candidates(m), cimt, 1)
    IN  IF Len(rows) = 0 THEN FallbackRows(dir, sid, cimt, 1) ELSE rows

\* neurolens.py:183, :363 str(m.get("id", i)) of the record at list index i
ListSid(items, i) == PyStr(GetOr(items[i + 1], "id", Num(IndexText(i))))

\* neurolens.py:360-365 the subject ids of the index, in file order
Sids(mt) ==
    CASE mt.form = "dict" -> [i \in 1..Len(mt.items) |-> mt.items[i][1]]
      [] mt.form = "list" ->
            [i \in 1..Len(mt.items) |-> ListSid(mt.items, i - 1)]
      [] OTHER -> <<>>

\* neurolens.py:180-185 by_id; in the list form a later record with the same
\* id replaces an earlier one
ById(mt) ==
    LET s == Sids(mt)
        last(sid) == CHOOSE i \in 1..Len(s) :
                         s[i] = sid /\ \A j \in (i + 1)..Len(s) : s[j] # sid
    IN  [sid \in Range(s) |->
            IF mt.form = "dict" THEN mt.items[last(sid)][2]
            ELSE mt.items[last(sid)]]

\* the files of the image directory
ImgDirs ==
    {{}, {"a.png", "b.png", "s1_L.png", "s1_R.png", "s2.jpg", "s2.jpeg",
          "1.png"}}

\* cfg["_B_target"]: the default, and another configured name
TargetKeys == {"thickness", "CIMT"}

\* the keys of a dict index, in file order
KeyName(i) ==
    CASE i = 1 -> "s1" [] i = 2 -> "s2" [] i = 3 -> "s3" [] OTHER -> "s4"

\* records of a dict index
DictRecords ==
    { [thickness |-> Num("0.7"), left_eye |-> Str("a.png"),
       right_eye |-> Str("b.png")],
      [thickness_mm |-> Num("0.9")],
      [left_eye |-> Str("a.png")],
      [thickness |-> Num("0"), thickness_mm |-> Num("0.9"),
       image |-> Str("a.png")],
      [thickness |-> Str("n/a"), thickness_mm |-> Num("0.9"),
       image |-> Str("a.png")],
      [thickness |-> Num("0.7"), left_eye |-> Str("missing.png"),
       image |-> PyNone],
      [CIMT |-> Str("0.65"), cimt_mm |-> Num("0.7"), img |-> Num("1"),
       fundus |-> Str("b.png")],
      [thickness |-> PyNone, cimt_mm |-> Str("nan"), image |-> Str("a.png")],
      [thickness |-> Num("inf"), image |-> Str("b.png")] }

\* records of a list index
ListRecords ==
    { [id |-> Str("s1"), thickness |-> Num("0.7"), left_eye |-> Str("a.png"),
       right_eye |-> Str("b.png")],
      [id |-> Str("s1"), thickness |-> Num("0.9"), image |-> Str("b.png")],
      [id |-> Str("s2"), thickness |-> Num("0.9")],
      [thickness |-> Num("0.7"), image |-> Str("a.png")],
      [id |-> Num("1"), thickness_mm |-> Num("0.9")],
      [id |-> Str("s3"), thickness |-> Num("0.7"),
       left_eye |-> Str("missing.png")] }

SeqsUpTo(S, n) == UNION {[1..k -> S] : k \in 0..n}

\* what json.load can return for the index file: an object keyed by subject
\* id, a list of records, or something else
Metas ==
    {[form |-> "other", items |-> <<>>]}
    \cup {[form |-> "dict",
           items |-> [i \in 1..Len(r) |-> <<KeyName(i), r[i]>>]] :
          r \in SeqsUpTo(DictRecords, MaxSubjects)}
    \cup {[form |-> "list", items |-> r] :
          r \in SeqsUpTo(ListRecords, MaxSubjects)}

CimtInit ==
    /\ ApiInit /\ TrainIdle /\ InferIdle /\ PrepIdle
    /\ rng = "os"
    /\ spc = "idle" /\ listing = <<>> /\ runs = 0
    /\ split = <<<<>>, <<>>>> /\ prev_split = <<<<>>, <<>>>>
    /\ dpc = "start" /\ meta \in Metas
    /\ img_dir \in ImgDirs /\ target_key \in TargetKeys
    /\ tr_sids = <<>> /\ va_sids = <<>> /\ ds_i = 0
    /\ rows_tr = <<>> /\ rows_va = <<>> /\ log = <<>>

\* subject_splits_from_json(info, 0.8) (neurolens.py:357-369)
subject_splits_from_json ==
    /\ dpc = "start"
    /\ \E d \in Draws(Seed42(rng), Len(Sids(meta))) :
        LET sids == Shuffle(Sids(meta), d)
            sp == SplitAt(sids, Cut(Len(sids)))
        IN  tr_sids' = sp[1] /\ va_sids' = sp[2]
    /\ rng' = "used"
    /\ dpc' = "train_ds"
    /\ ds_i' = 0
    /\ UNCHANGED <<meta, img_dir, target_key, rows_tr, rows_va, log>>
    /\ UNCHANGED scanVars
    /\ UNCHANGED <<apiVars, trainVars, inferVars, prepVars>>

\* one iteration of "for sid in subject_ids" in CIMTDataset.__init__
\* (neurolens.py:187-221), for the training dataset and then for the
\* validation dataset; log keeps, for every subject met, the record, whether
\* its target was accepted, the target and the rows it contributed
CIMTDatasetSubject ==
    /\ dpc \in {"train_ds", "val_ds"}
    /\ LET sids == IF dpc = "train_ds" THEN tr_sids ELSE va_sids
           by_id == ById(meta)
       IN  /\ ds_i < Len(sids)
           /\ LET sid == sids[ds_i + 1]
              IN  IF sid \notin DOMAIN by_id
                  THEN UNCHANGED <<rows_tr, rows_va, log>>
                  ELSE LET m == by_id[sid]
                           raw == RawTarget(m, target_key)
                           ok == ~FloatRaises(raw)
                           cimt == IF ok THEN FloatOf(raw) ELSE None
                           rows == IF ok THEN ImageRows(m, sid, img_dir, cimt)
                                   ELSE <<>>
                       IN  /\ IF dpc = "train_ds"
                              THEN rows_tr' = rows_tr \o rows
                                   /\ UNCHANGED rows_va
                              ELSE rows_va' = rows_va \o rows
                                   /\ UNCHANGED rows_tr
                           /\ log' = Append(log,
                                  [side |-> dpc, sid |-> sid, m |-> m,
                                   kept |-> ok, cimt |-> cimt, rows |-> rows])
    /\ ds_i' = ds_i + 1
    /\ UNCHANGED <<dpc, meta, img_dir, target_key, tr_sids, va_sids>>
    /\ UNCHANGED <<rng, scanVars>>
    /\ UNCHANGED <<apiVars, trainVars, inferVars, prepVars>>

\* the loop of CIMTDataset.__init__ is over: train_B goes on to build the
\* validation dataset (neurolens.py:381-382), and after it to the row count
CIMTDatasetBuilt ==
    /\ \/ dpc = "train_ds" /\ ds_i = Len(tr_sids) /\ dpc' = "val_ds"
       \/ dpc = "val_ds" /\ ds_i = Len(va_sids) /\ dpc' = "built"
    /\ ds_i' = 0
    /\ UNCHANGED <<meta, img_dir, target_key, tr_sids, va_sids, rows_tr,
                   rows_va, log>>
    /\ UNCHANGED <<rng, scanVars>>
    /\ UNCHANGED <<apiVars, trainVars, inferVars, prepVars>>

\* train_B with both datasets built: sys.exit(1) when there is no training
\* row, else on to the data loaders and the model (neurolens.py:383-393)
train_B_rows ==
    /\ dpc = "built"
    /\ dpc' = IF NoTrainingData(Len(rows_tr)) THEN "exit" ELSE "ready"
    /\ UNCHANGED <<meta, img_dir, target_key, tr_sids, va_sids, ds_i, rows_tr,
                   rows_va, log>>
    /\ UNCHANGED <<rng, scanVars>>
    /\ UNCHANGED <<apiVars, trainVars, inferVars, prepVars>>

CimtNext ==
    \/ subject_splits_from_json
    \/ CIMTDatasetSubject
    \/ CIMTDatasetBuilt
    \/ train_B_rows

SpecCimt == CimtInit /\ [][CimtNext]_vars

(***************************************************************************)
(* inference.py: one run of the command line, with the torch and the ONNX  *)
(* backend of each part                                                    *)
(***************************************************************************)
MaxCsvRows == 1

\* argparse: --backend has default "torch" (inference.py:248)
Backend(arg) == IF arg = "" THEN "torch" ELSE arg

\* mutant: every call goes to the ONNX predictor
UsesOnnxAlways(b) == TRUE

\* inference.py:269, :294, :309, :332 if args.backend == "onnx"
UsesOnnx(b) == b = "onnx"

\* the command-line arguments that make a part run, in the order of main
PartArgs == {"retinal_img", "b_csv", "cimt_img", "brain_img"}

InferInit ==
    /\ ApiInit /\ TrainIdle /\ DataIdle /\ PrepIdle
    /\ ipc = "idle" /\ backend_arg = "" /\ ort_installed \in BOOLEAN
    /\ args = {} /\ csv_rows = 0 /\ csv_i = 0
    /\ ort_imports = 0 /\ printed = {} /\ ierror = ""

\* inference.py:246-265 main parses its arguments
InferMain ==
    /\ ipc = "idle"
    /\ backend_arg' \in {"", "torch", "onnx"}
    /\ args' \in SUBSET PartArgs
    /\ csv_rows' \in 0..MaxCsvRows
    /\ ipc' = "A"
    /\ UNCHANGED <<ort_installed, csv_i, ort_imports, printed, ierror>>
    /\ UNCHANGED <<apiVars, trainVars, dataVars, prepVars>>

\* one predict_X_onnx or predict_X_torch call, as main dispatches it.
\* ONNX (inference.py:193-225): the runtime is imported lazily and a missing
\* runtime is a RuntimeError; torch (inference.py:146-190): the image is
\* read, the checkpoint loaded tolerantly, the model run.  Either can also
\* fail on an unreadable image or a missing model file.  ok is what follows
\* a prediction that returned.
Predict(ok) ==
    IF UsesOnnx(Backend(backend_arg))
    THEN /\ ort_imports' = ort_imports + 1
         /\ IF ~ort_installed
            THEN /\ ipc' = "failed"
                 /\ ierror' = "onnxruntime not available"
                 /\ UNCHANGED <<printed, csv_i>>
            ELSE \/ ok /\ UNCHANGED ierror
                 \/ /\ ipc' = "failed" /\ ierror' = "other"
                    /\ UNCHANGED <<printed, csv_i>>
    ELSE /\ UNCHANGED ort_imports
         /\ \E names_match \in BOOLEAN :
             IF LoadTolerant(names_match) = "raise"
             THEN /\ ipc' = "failed" /\ ierror' = "load_state_dict"
                  /\ UNCHANGED <<printed, csv_i>>
             ELSE \/ ok /\ UNCHANGED ierror
                  \/ /\ ipc' = "failed" /\ ierror' = "other"
                     /\ UNCHANGED <<printed, csv_i>>

\* inference.py:267-278 part A
InferPartA ==
    /\ ipc = "A"
    /\ IF "retinal_img" \in args
       THEN Predict(/\ printed' = printed \cup {"retinal"}
                    /\ ipc' = "B_csv"
                    /\ UNCHANGED csv_i)
       ELSE /\ ipc' = "B_csv"
            /\ UNCHANGED <<ort_imports, printed, csv_i, ierror>>
    /\ UNCHANGED <<backend_arg, ort_installed, args, csv_rows>>
    /\ UNCHANGED <<apiVars, trainVars, dataVars, prepVars>>

\* inference.py:281-306 part B on a CSV: one prediction per usable row, and
\* the batch metrics after the last row
InferPartBCsv ==
    /\ ipc = "B_csv"
    /\ IF "b_csv" \in args
       THEN IF csv_i < csv_rows
            THEN Predict(/\ csv_i' = csv_i + 1
                         /\ UNCHANGED <<ipc, printed>>)
            ELSE /\ printed' = printed \cup {"cimt (batch)"}
                 /\ ipc' = "B"
                 /\ UNCHANGED <<ort_imports, csv_i, ierror>>
       ELSE /\ ipc' = "B"
            /\ UNCHANGED <<ort_imports, printed, csv_i, ierror>>
    /\ UNCHANGED <<backend_arg, ort_installed, args, csv_rows>>
    /\ UNCHANGED <<apiVars, trainVars, dataVars, prepVars>>

\* inference.py:308-328 part B on one image
InferPartB ==
    /\ ipc = "B"
    /\ IF "cimt_img" \in args
       THEN Predict(/\ printed' = printed \cup {"cimt"}
                    /\ ipc' = "C"
                    /\ UNCHANGED csv_i)
       ELSE /\ ipc' = "C"
            /\ UNCHANGED <<ort_imports, printed, csv_i, ierror>>
    /\ UNCHANGED <<backend_arg, ort_installed, args, csv_rows>>
    /\ UNCHANGED <<apiVars, trainVars, dataVars, prepVars>>

\* inference.py:330-341 part C
InferPartC ==
    /\ ipc = "C"
    /\ IF "brain_img" \in args
       THEN Predict(/\ printed' = printed \cup {"brain"}
                    /\ ipc' = "done"
                    /\ UNCHANGED csv_i)
       ELSE /\ ipc' = "done"
            /\ UNCHANGED <<ort_imports, printed, csv_i, ierror>>
    /\ UNCHANGED <<backend_arg, ort_installed, args, csv_rows>>
    /\ UNCHANGED <<apiVars, trainVars, dataVars, prepVars>>

InferNext ==
    \/ InferMain
    \/ InferPartA
    \/ InferPartBCsv
    \/ InferPartB
    \/ InferPartC

SpecInfer == InferInit /\ [][InferNext]_vars

(***************************************************************************)
(* Preprocessing (inference.py load_preprocess, repeated in models.py      *)
(* predict_brain_stroke): the longest side is resized to the target size,  *)
(* the result pasted centred on a size x size canvas of zeros.             *)
(***************************************************************************)
MaxDim == 10

\* image heights and widths: the small ones, and sizes around the target
\* size and its multiples
Dims == (1..MaxDim) \cup {256, 511, 512, 513, 1023, 1024, 1025, 2048, 3072}

\* target sizes: 512 is what every caller passes
TargetSizes == {1, 4, 512}

Max(a, b) == IF a >= b THEN a ELSE b

\* int(round(n / d)): Python's round takes an exact half to the even
\* neighbour.  h * (size / max(h, w)) in doubles rounds as the exact quotient
\* h * size / max(h, w) does for the dimensions used here.
RoundHalfEven(n, d) ==
    LET q == n \div d
        r == n % d
    IN  IF 2 * r < d THEN q
        ELSE IF 2 * r > d THEN q + 1
        ELSE IF q % 2 = 0 THEN q ELSE q + 1

\* inference.py:93 nh, nw = int(round(h * scale)), int(round(w * scale))
\* with scale = size / max(h, w) (:92)
Resized(x, h, w, sz) == RoundHalfEven(x * sz, Max(h, w))

\* inference.py:97-98 (size - n) // 2
Offset(sz, n) == (sz - n) \div 2

PrepInit ==
    /\ ApiInit /\ TrainIdle /\ DataIdle /\ InferIdle
    /\ ppc = "start" /\ readable \in BOOLEAN
    /\ img_h \in Dims /\ img_w \in Dims /\ size \in TargetSizes
    /\ nh = None /\ nw = None /\ top = None /\ left = None
    /\ pasted = "" /\ prep_error = ""

\* load_preprocess(img_path, size) (inference.py:81-103; models.py:176-189).
\* cv2.imread returns None for a file it cannot read (:86-88); cv2.resize
\* raises cv2.error for a destination size with a zero side (:94).
load_preprocess ==
    /\ ppc = "start"
    /\ IF ~readable
       THEN /\ prep_error' = "FileNotFoundError"
            /\ ppc' = "raised"
            /\ UNCHANGED <<nh, nw, top, left, pasted>>
       ELSE LET rh == Resized(img_h, img_h, img_w, size)
                rw == Resized(img_w, img_h, img_w, size)
            IN  /\ nh' = rh /\ nw' = rw
                /\ IF rh = 0 \/ rw = 0
                   THEN /\ prep_error' = "cv2.error"
                        /\ ppc' = "raised"
                        /\ UNCHANGED <<top, left, pasted>>
                   ELSE /\ top' = Offset(size, rh)
                        /\ left' = Offset(size, rw)
                        /\ pasted' = IF rh = img_h /\ rw = img_w
                                      THEN "input" ELSE "resampled"
                        /\ ppc' = "returned"
                        /\ UNCHANGED prep_error
    /\ UNCHANGED <<readable, img_h, img_w, size>>
    /\ UNCHANGED <<apiVars, trainVars, dataVars, inferVars>>

SpecPrep == PrepInit /\ [][load_preprocess]_vars

(***************************************************************************)
(* Properties                                                              *)
(***************************************************************************)
\* the call has a fused score
Fused == StrokeRiskScore # None

\* the vitals are in the documented domain
ValidVitals ==
    /\ age \in 0..120
    /\ SBP \in 50..300
    /\ DBP \in 30..200
    /\ DBP < SBP

\* C1: whenever predict_stroke_risk has produced a score, the score is
\* 0.22*eye + 0.35*cimt + 0.10*brain + 0.33*epwv of the four signals the
\* mappings produced, and the four weights sum to 1.00.
C1_ScoreIsWeightedSumOfFour ==
    Fused =>
        /\ ER # None /\ CR # None /\ BR # None /\ PR # None
        /\ StrokeRiskScore = 10 * (22 * ER + 35 * CR + 10 * BR + 33 * PR)
        /\ 22 + 35 + 10 + 33 = 100

\* the same statement for the score the API serves (app.py) alone
AppScoreIsWeightedSumOfFour ==
    (Fused /\ entry = "app") =>
        StrokeRiskScore = 10 * (22 * ER + 35 * CR + 10 * BR + 33 * PR)

C3_SignalsAndScoreInUnitRange ==
    ValidVitals =>
        /\ eye_class # "" => ER \in 0..100
        /\ cimt_pred # None => CR \in 0..100
        /\ brain_class # "" => BR \in 0..100
        /\ "calculate_ePWV_scale" \in calls => PR \in 0..100
        /\ (pc = "tier" \/ status \in {"200", "returned"}) =>
               StrokeRiskScore \in 0..100000

C3_Witness ==
    /\ status = "200" /\ ValidVitals
    /\ ER = 100 /\ CR = 90 /\ BR = 90 /\ PR = 90
    /\ StrokeRiskScore = 92200

\* tiers in their order
TierRank(l) == IF l = "Low" THEN 1 ELSE IF l = "Medium" THEN 2 ELSE 3
\* the tiers predict_risk can give a fused score
TiersOf(score) == {RiskLevel(rp) : rp \in Round2(score)}

\* the values each mapping can produce
EyeRange == {EyeScaled(EyeClassNames[i], c) : i \in DOMAIN EyeClassNames, c \in Confs}
CimtRange == {CimtScaled(v) : v \in CimtPreds}
BrainRange == {BrainScaled(C_CLASSES[i], c) : i \in DOMAIN C_CLASSES, c \in Confs}
EpwvRange == {20, 55, 90}

\* C4: the fused score is non-decreasing in each single modality signal: a
\* tuple that differs from the call's in one modality only has a fused score
\* (and a tier) at least the call's when its value there is larger, and at
\* most the call's when it is smaller.
C4_MonotoneInEachSignal ==
    /\ (Fused /\ entry = "app") =>
        /\ \A x \in EyeRange :
            /\ x >= ER => FuseApp(x, CR, BR, PR) >= StrokeRiskScore
            /\ x <= ER => FuseApp(x, CR, BR, PR) <= StrokeRiskScore
        /\ \A x \in CimtRange :
            /\ x >= CR => FuseApp(ER, x, BR, PR) >= StrokeRiskScore
            /\ x <= CR => FuseApp(ER, x, BR, PR) <= StrokeRiskScore
        /\ \A x \in BrainRange :
            /\ x >= BR => FuseApp(ER, CR, x, PR) >= StrokeRiskScore
            /\ x <= BR => FuseApp(ER, CR, x, PR) <= StrokeRiskScore
        /\ \A x \in EpwvRange :
            /\ x >= PR => FuseApp(ER, CR, BR, x) >= StrokeRiskScore
            /\ x <= PR => FuseApp(ER, CR, BR, x) <= StrokeRiskScore
    /\ status = "200" =>
        /\ \A x \in EyeRange : x >= ER =>
              \A t \in TiersOf(FuseApp(x, CR, BR, PR)) :
                  TierRank(t) >= TierRank(risk_level)
        /\ \A x \in CimtRange : x >= CR =>
              \A t \in TiersOf(FuseApp(ER, x, BR, PR)) :
                  TierRank(t) >= TierRank(risk_level)
        /\ \A x \in BrainRange : x >= BR =>
              \A t \in TiersOf(FuseApp(ER, CR, x, PR)) :
                  TierRank(t) >= TierRank(risk_level)
        /\ \A x \in EpwvRange : x >= PR =>
              \A t \in TiersOf(FuseApp(ER, CR, BR, x)) :
                  TierRank(t) >= TierRank(risk_level)
    /\ (Fused /\ entry = "main") =>
        /\ \A x \in EyeRange :
            /\ x >= ER => FuseMain(x, CR, PR) >= StrokeRiskScore
            /\ x <= ER => FuseMain(x, CR, PR) <= StrokeRiskScore
        /\ \A x \in CimtRange :
            /\ x >= CR => FuseMain(ER, x, PR) >= StrokeRiskScore
            /\ x <= CR => FuseMain(ER, x, PR) <= StrokeRiskScore
        /\ \A x \in EpwvRange :
            /\ x >= PR => FuseMain(ER, CR, x) >= StrokeRiskScore
            /\ x <= PR => FuseMain(ER, CR, x) <= StrokeRiskScore

\* a Low response that a larger CIMT signal alone would have made Medium
C4_Witness ==
    /\ status = "200" /\ risk_level = "Low" /\ CR = 20
    /\ FuseApp(ER, 90, BR, PR) > StrokeRiskScore
    /\ TiersOf(FuseApp(ER, 90, BR, PR)) = {"Medium"}

\* C5 as claimed: the CIMT signal is 0.20 for every v < 0.6, 0.55 for
\* 0.6 <= v <= 0.8 and 0.90 for v > 0.8, and no regression value yields any
\* other scalar.
C5_CimtThreeBuckets ==
    cimt_pred # None =>
        /\ CR \in {20, 55, 90}
        /\ FLt(cimt_pred, 60000) => CR = 20
        /\ (FLe(60000, cimt_pred) /\ FLe(cimt_pred, 80000)) => CR = 55
        /\ FGt(cimt_pred, 80000) => CR = 90

\* what predict_cimt does: the three buckets on v > 0, and 0.0 for v <= 0 and
\* for NaN
CimtBucketsAboveZero ==
    cimt_pred # None =>
        /\ (FLt(0, cimt_pred) /\ FLt(cimt_pred, 60000)) <=> CR = 20
        /\ (FLe(60000, cimt_pred) /\ FLe(cimt_pred, 80000)) <=> CR = 55
        /\ FGt(cimt_pred, 80000) <=> CR = 90
        /\ (IsNaN(cimt_pred) \/ cimt_pred <= 0) <=> CR = 0

\* C6: the eye and brain signals are the literal table entry of the predicted
\* class (eye normal 0.10, brvo 0.50, crvo 0.80, rao 1.00; brain normal 0.20,
\* abnormal 0.90), whatever the probability the classifier gave that class.
C6_ClassTables ==
    /\ eye_class # "" =>
        /\ eye_class \in {"NORMAL", "BRVO", "CRVO", "RAO"}
        /\ eye_class = "NORMAL" => ER = 10
        /\ eye_class = "BRVO" => ER = 50
        /\ eye_class = "CRVO" => ER = 80
        /\ eye_class = "RAO" => ER = 100
    /\ brain_class # "" =>
        /\ brain_class \in {"normal", "abnormal"}
        /\ brain_class = "normal" => BR = 20
        /\ brain_class = "abnormal" => BR = 90

\* a barely-won CRVO and a barely-won abnormal still give 0.80 and 0.90
C6_Witness ==
    /\ eye_class = "CRVO" /\ eye_conf = 51 /\ ER = 80
    /\ brain_class = "abnormal" /\ brain_conf = 51 /\ BR = 90

\* C7: the ePWV thresholds depend on the age band alone ({7,8} below 40,
\* {9,10} from 40 to 59, {11,12} from 60 on, switching between 39/40 and
\* 59/60), and the signal is 0.20 below the low threshold, 0.55 between the
\* thresholds and 0.90 above the high one.
C7_EpwvAgeBands ==
    ("calculate_ePWV_scale" \in calls /\ ~IsNaN(SBP) /\ ~IsNaN(DBP)) =>
        LET lo == IF age <= 39 THEN 7 ELSE IF age <= 59 THEN 9 ELSE 11
            hi == lo + 1
        IN  /\ EpwvLt(age, SBP, DBP, lo) => PR = 20
            /\ (EpwvGe(age, SBP, DBP, lo) /\ EpwvLe(age, SBP, DBP, hi)) => PR = 55
            /\ EpwvGt(age, SBP, DBP, hi) => PR = 90
            /\ PR \in {20, 55, 90}

\* at 40 an ePWV between 7 and 8 is Low; the same value is Medium below 40
C7_Witness ==
    /\ "calculate_ePWV_scale" \in calls
    /\ age = 40 /\ PR = 20
    /\ EpwvGe(age, SBP, DBP, 7) /\ EpwvLe(age, SBP, DBP, 8)

\* a documented range does not hold the value
OutOfRange ==
    \/ age \notin 0..120
    \/ SBP \notin 50..300
    \/ DBP \notin 30..200
    \/ ~(DBP < SBP)

\* C8: a request whose age is outside [0,120], whose systolic is outside
\* [50,300], whose diastolic is outside [30,200] or whose diastolic is not
\* below its systolic is answered 400, and nothing of the core runs for it: no
\* temporary file, no load_models, no predictor, no score.
C8_InvalidRequestNeverReachesCore ==
    (entry = "app" /\ pc # "idle" /\ OutOfRange) =>
        /\ status = "400"
        /\ calls = {}
        /\ ~tmp_file
        /\ StrokeRiskScore = None

\* the same for requests whose pressures are numbers
NumericInvalidRequestNeverReachesCore ==
    (entry = "app" /\ pc # "idle" /\ OutOfRange /\ ~IsNaN(SBP) /\ ~IsNaN(DBP)) =>
        /\ status = "400"
        /\ calls = {}
        /\ ~tmp_file
        /\ StrokeRiskScore = None

\* the epochs of h whose metric is strictly above every earlier one
StrictRecords(h) == {i \in 1..Len(h) : \A j \in 1..(i - 1) : h[j] < h[i]}
\* the earliest epoch of a non-empty h that attains its maximum
EarliestMax(h) ==
    CHOOSE i \in 1..Len(h) :
        /\ \A j \in 1..Len(h) : h[j] <= h[i]
        /\ \A j \in 1..(i - 1) : h[j] < h[i]

\* C9: in train_A and train_C the snapshot is replaced exactly in the epochs
\* whose macro-F1 strictly exceeds every earlier one (a tie replaces nothing),
\* so the retained snapshot, and the saved artifact, is the earliest epoch that
\* attains the maximum F1; F1 = [0.5, 0.7, 0.6, 0.8] replaces it in epochs
\* 1, 2 and 4 and saves epoch 4.
C9_BestF1Retention ==
    (part \in {"A", "C"} /\ tpc \in {"loop", "saved"}) =>
        /\ replaced = StrictRecords(hist)
        /\ hist # <<>> =>
            /\ best_state = EarliestMax(hist)
            /\ best_metric = hist[best_state]
        /\ (tpc = "saved" /\ hist # <<>>) => artifact = <<EarliestMax(hist)>>
        /\ hist = <<5, 7, 6, 8>> => (replaced = {1, 2, 4} /\ best_state = 4)

\* the example of the claim: the best epoch is the last one
C9_Witness ==
    /\ part = "A" /\ tpc = "saved"
    /\ hist = <<5, 7, 6, 8>>
    /\ replaced = {1, 2, 4}
    /\ artifact = <<4>>

\* the same statement where the snapshot is a copy (device "cuda"); on every
\* device the snapshot is taken exactly in the strict records
BestF1RetentionWithCopiedSnapshot ==
    (part \in {"A", "C"} /\ tpc \in {"loop", "saved"}) =>
        /\ replaced = StrictRecords(hist)
        /\ hist # <<>> =>
            /\ best_state = EarliestMax(hist)
            /\ best_metric = hist[best_state]
        /\ (tpc = "saved" /\ hist # <<>> /\ device = "cuda") =>
               artifact = <<EarliestMax(hist)>>

\* on the cpu, F1 = [0.8, 0.5]: the snapshot was taken in epoch 1 and the
\* file holds the weights of epoch 2
LastEpochSavedOnCpu ==
    /\ part = "A" /\ device = "cpu" /\ tpc = "saved"
    /\ hist = <<8, 5>>
    /\ best_state = 1 /\ best_metric = 8
    /\ artifact = <<2>>

\* C10: a run that entered its epoch loop with epoch count E runs E epochs,
\* each with one validation pass, whatever the metrics are, and then stops;
\* the checkpoint is written once, after the last epoch, never inside the loop.
C10_AllEpochsThenOneSave ==
    /\ tpc = "loop" =>
        /\ ep <= epochs
        /\ Len(hist) = ep /\ val_passes = ep
        /\ saves = 0 /\ artifact = <<>>
        /\ ep < epochs => ENABLED TrainEpoch
        /\ ep = epochs => ENABLED TrainSave
    /\ tpc = "saved" =>
        /\ ep = epochs
        /\ Len(hist) = epochs /\ val_passes = epochs
        /\ saves = 1 /\ artifact # <<>>
        /\ ~ENABLED TrainNext
    /\ tpc \in {"idle", "exit"} => (saves = 0 /\ artifact = <<>> /\ ep = 0)

\* three epochs in a row without improvement, and the run still did all four
C10_Witness ==
    /\ part = "A" /\ tpc = "saved" /\ epochs = 4
    /\ hist = <<8, 5, 5, 5>>
    /\ val_passes = 4 /\ saves = 1

\* C11: a training run (train_A, train_B, train_C) whose training dataset is
\* empty aborts at once: the run is at its exit, no model was made, no epoch
\* and no validation pass ran, no checkpoint was written, and nothing more
\* can happen in the run.
C11_EmptyTrainingSetAborts ==
    (tpc # "idle" /\ n_train = 0) =>
        /\ tpc = "exit"
        /\ model_made = FALSE
        /\ best_metric = None /\ best_state = None
        /\ ep = 0 /\ hist = <<>> /\ val_passes = 0
        /\ saves = 0 /\ artifact = <<>>
        /\ ~ENABLED TrainNext

\* train_B asked for four epochs, with validation data but no training data
C11_Witness ==
    /\ part = "B" /\ tpc = "exit"
    /\ n_train = 0 /\ n_val = 2 /\ epochs = 4
    /\ model_made = FALSE /\ artifact = <<>>

\* the epochs of h whose value is strictly below every earlier one
StrictLows(h) == {i \in 1..Len(h) : \A j \in 1..(i - 1) : h[i] < h[j]}

\* the earliest epoch of a non-empty h that attains its minimum
EarliestMin(h) ==
    CHOOSE i \in 1..Len(h) :
        /\ \A j \in 1..Len(h) : h[i] <= h[j]
        /\ \A j \in 1..(i - 1) : h[i] < h[j]

\* C19: in train_B, after any sequence of per-epoch validation MAE values,
\* the snapshot is replaced exactly in the epochs whose MAE is strictly lower
\* than every earlier one (a tie replaces nothing), so the retained snapshot,
\* and the saved artifact, is the earliest epoch that attains the minimum MAE.
C19_BestMaeRetention ==
    (part = "B" /\ tpc \in {"loop", "saved"}) =>
        /\ replaced = StrictLows(hist)
        /\ hist # <<>> =>
            /\ best_state = EarliestMin(hist)
            /\ best_metric = hist[best_state]
        /\ (tpc = "saved" /\ hist # <<>>) => artifact = <<EarliestMin(hist)>>

\* the same statement for MAE sequences that start below the initial
\* best_mae of 1e9, where the strict "<" keeps the earliest minimum, and for
\* the file where the snapshot is a copy (device "cuda")
MaeRetentionBelowInitialBest ==
    (part = "B" /\ tpc \in {"loop", "saved"} /\ hist # <<>>
               /\ hist[1] < InitBest("B")) =>
        /\ replaced = StrictLows(hist)
        /\ best_state = EarliestMin(hist)
        /\ best_metric = hist[best_state]
        /\ (tpc = "saved" /\ device = "cuda") => artifact = <<EarliestMin(hist)>>
        /\ hist = <<6, 5, 5, 7>> => (replaced = {1, 2} /\ best_state = 2)

\* on the cpu, MAE = [5, 7]: the snapshot was taken in epoch 1 and the file
\* holds the weights of epoch 2
LastEpochMaeSavedOnCpu ==
    /\ part = "B" /\ device = "cpu" /\ tpc = "saved"
    /\ hist = <<5, 7>>
    /\ best_state = 1 /\ best_metric = 5
    /\ artifact = <<2>>

\* every epoch's MAE is at or above 1e9: nothing was retained, None is saved
MaeNeverBelowInitialBest ==
    /\ part = "B" /\ tpc = "saved"
    /\ hist = <<1500000000, 1000000000>>
    /\ replaced = {} /\ artifact = <<None>>

\* C12: a finished scan_raw_dir returned an 80/20 partition of the listing:
\* train and val are disjoint, together hold every scanned item exactly once,
\* and train holds floor(0.8 * n) of the n items; and a repeated run on the
\* same listing returned the identical (train, val) pair.
C12_RawSplitDeterministicPartition ==
    spc = "done" =>
        LET tr == split[1]
            va == split[2]
            n == Len(listing)
        IN  /\ Range(tr) \cap Range(va) = {}
            /\ Range(tr) \cup Range(va) = Range(listing)
            /\ Len(tr) + Len(va) = n
            /\ Cardinality(Range(tr)) = Len(tr)
            /\ Cardinality(Range(va)) = Len(va)
            /\ Len(tr) = (4 * n) \div 5
            /\ runs >= 2 => split = prev_split

\* the third run on a five-file listing returns the same 4 + 1 split again
C12_Witness ==
    /\ spc = "done" /\ runs = 3
    /\ listing = <<1, 2, 3, 4, 5>>
    /\ split = <<<<4, 2, 3, 5>>, <<1>>>>
    /\ prev_split = split

\* the subject ids of the index are pairwise different
UniqueSids == \A i, j \in 1..Len(Sids(meta)) : Sids(meta)[i] = Sids(meta)[j] => i = j

\* C13: whatever the JSON index (keyed by id, or a list of records) and the
\* image directory, no subject contributes rows to both the training dataset
\* and the validation dataset.
C13_SubjectLevelSplit ==
    \A i, j \in 1..Len(log) :
        (/\ log[i].side = "train_ds" /\ log[i].rows # <<>>
         /\ log[j].side = "val_ds" /\ log[j].rows # <<>>)
        => log[i].sid # log[j].sid

\* the same statement for the indexes whose subject ids are pairwise
\* different (every index keyed by id is one)
SubjectLevelSplitForUniqueSids ==
    /\ meta.form = "dict" => UniqueSids
    /\ UniqueSids =>
        \A i, j \in 1..Len(log) :
            (/\ log[i].side = "train_ds" /\ log[i].rows # <<>>
             /\ log[j].side = "val_ds" /\ log[j].rows # <<>>)
            => log[i].sid # log[j].sid

\* a list of two records with the same id: the subject is on both sides
SameSidOnBothSides ==
    /\ dpc = "ready"
    /\ meta.form = "list" /\ Len(meta.items) = 2
    /\ tr_sids = <<"s1">> /\ va_sids = <<"s1">>
    /\ rows_tr # <<>> /\ rows_tr = rows_va

\* the candidate target fields, in the order they are tried
TargetFields(tk) == <<tk, "thickness_mm", "CIMT", "cimt_mm">>

\* C14: a subject whose record has no candidate target field that parses as
\* a number is skipped: it contributes no row, whatever images resolve.
C14_NoNumericTargetSkipsSubject ==
    \A i \in 1..Len(log) :
        (\A k \in Range(TargetFields(target_key)) : FloatRaises(Get(log[i].m, k)))
        => (log[i].kept = FALSE /\ log[i].rows = <<>>)

\* a record with an image and no target field at all gets a row with target 0.0
NoTargetFieldGivesZeroTarget ==
    \E i \in 1..Len(log) :
        /\ DOMAIN log[i].m = {"left_eye"}
        /\ log[i].kept = TRUE
        /\ log[i].rows = <<<<"a.png", 0>>>>

\* the subject has no image: no candidate path field names an existing file
\* and no <sid><suffix> exists
NoImage(e) ==
    /\ \A k \in Range(ImageKeys) :
           LET v == Get(e.m, k) IN ~(v[1] = "str" /\ v[2] \in img_dir)
    /\ \A x \in Range(Suffixes) : (e.sid \o x) \notin img_dir

\* the rows the subjects of one dataset contributed, in order
RECURSIVE RowsOf(_, _, _)
RowsOf(l, side, i) ==
    IF i > Len(l) THEN <<>>
    ELSE (IF l[i].side = side THEN l[i].rows ELSE <<>>) \o RowsOf(l, side, i + 1)

\* C15: a subject with no image contributes zero rows and raises no error:
\* the construction goes through every subject of both sides, one after the
\* other, and the datasets hold exactly the rows the subjects contributed.
C15_NoImageNoRowsNoError ==
    /\ \A i \in 1..Len(log) : NoImage(log[i]) => log[i].rows = <<>>
    /\ rows_tr = RowsOf(log, "train_ds", 1)
    /\ rows_va = RowsOf(log, "val_ds", 1)
    /\ dpc = "train_ds" => (Len(log) = ds_i /\ ds_i <= Len(tr_sids))
    /\ dpc = "val_ds" =>
           (Len(log) = Len(tr_sids) + ds_i /\ ds_i <= Len(va_sids))
    /\ dpc \in {"built", "exit", "ready"} => Len(log) = Len(tr_sids) + Len(va_sids)

\* the first training subject has a target and no image, the next one
\* contributes rows, and the datasets are built
C15_Witness ==
    /\ dpc = "ready"
    /\ Len(log) = 3
    /\ log[1].side = "train_ds" /\ log[1].kept = TRUE
    /\ NoImage(log[1]) /\ log[1].rows = <<>>
    /\ log[2].side = "train_ds" /\ log[2].rows # <<>>
    /\ rows_tr = log[2].rows

\* the first of the candidate target fields that is present in the record
FirstPresent(m, tk) ==
    LET f == TargetFields(tk)
    IN  f[CHOOSE i \in 1..Len(f) :
              f[i] \in DOMAIN m /\ \A j \in 1..(i - 1) : f[j] \notin DOMAIN m]

\* C20: the target of a subject is the value of the first field, in the order
\* [configured target field, thickness_mm, CIMT, cimt_mm], that is present in
\* its record; a record with thickness_mm and no thickness field resolves to
\* the thickness_mm value.
C20_TargetIsFirstPresentField ==
    \A i \in 1..Len(log) :
        LET m == log[i].m
        IN  (\E k \in Range(TargetFields(target_key)) : k \in DOMAIN m) =>
                LET v == m[FirstPresent(m, target_key)]
                IN  IF FloatRaises(v) THEN log[i].kept = FALSE
                    ELSE log[i].kept = TRUE /\ log[i].cimt = FloatOf(v)

\* the example of the claim: thickness_mm and no thickness field
ThicknessMmResolves ==
    \A i \in 1..Len(log) :
        LET m == log[i].m
        IN  (/\ target_key = "thickness" /\ "thickness" \notin DOMAIN m
             /\ "thickness_mm" \in DOMAIN m /\ ~FloatRaises(m["thickness_mm"]))
            => (log[i].kept = TRUE /\ log[i].cimt = FloatOf(m["thickness_mm"]))

\* thickness is present with the value 0 and thickness_mm is 0.9: the target
\* is 0.9
ZeroThicknessPassedOver ==
    \E i \in 1..Len(log) :
        /\ target_key = "thickness"
        /\ Get(log[i].m, "thickness") = Num("0")
        /\ Get(log[i].m, "thickness_mm") = Num("0.9")
        /\ log[i].cimt = 90000

\* C16: every path that loads a checkpoint tries the strict load and falls
\* back to the partial one, so no call and no /predict-risk request ever ends
\* because the parameter names of a checkpoint do not match.
C16_NameMismatchNeverFails == weight_load_error = ""

\* the paths that do fall back: predict_brain_stroke online, and the three
\* torch predictors of the command line (under SpecInfer)
TolerantLoadsNeverFail ==
    /\ weight_load_error # "predict_brain_stroke"
    /\ ierror # "load_state_dict"

\* a /predict-risk request answered 500 because the CIMT checkpoint's names
\* do not match
CimtNameMismatchFailsRequest ==
    /\ entry = "app" /\ pc = "done" /\ status = "500"
    /\ weight_load_error = "predict_cimt"
    /\ "predict_eye_stroke" \in calls

\* C17: only a run that asks for the ONNX backend can end with "onnxruntime
\* not available", and it does so only when the runtime is not installed; a
\* run on the torch backend, given or by default, never imports the runtime,
\* and without the runtime no ONNX prediction is ever printed.
C17_OnlyOnnxRequestsNeedOnnx ==
    /\ ierror = "onnxruntime not available" =>
           (backend_arg = "onnx" /\ ~ort_installed)
    /\ backend_arg \in {"", "torch"} => ort_imports = 0
    /\ (backend_arg = "onnx" /\ ~ort_installed) =>
           (printed \subseteq {"cimt (batch)"} /\ ort_imports <= 1)
    /\ (backend_arg = "onnx" /\ ~ort_installed /\ ort_imports = 1) =>
           (ipc = "failed" /\ ierror = "onnxruntime not available")

\* without the runtime, a run on the default backend prints all four parts
C17_Witness ==
    /\ ~ort_installed /\ backend_arg = ""
    /\ args = PartArgs /\ csv_rows = 1
    /\ ipc = "done" /\ ierror = ""
    /\ printed = {"retinal", "cimt (batch)", "cimt", "brain"}
    /\ ort_imports = 0

\* a modality signal that is a defined number
Defined(x) == x \in 0..100

\* C18: for vitals in the documented domain (age in 0..120, valid pressures),
\* every class the eye and brain classifiers can predict and every CIMT
\* regression value, each mapping returned a defined number, never None, so
\* that at the weighted sum all its terms are numbers and the sum is computed.
C18_FusionTotal ==
    /\ \A i \in DOMAIN EyeClassNames, c \in Confs :
           Defined(EyeScaled(EyeClassNames[i], c))
    /\ \A i \in DOMAIN C_CLASSES, c \in Confs :
           Defined(BrainScaled(C_CLASSES[i], c))
    /\ \A v \in CimtPreds : Defined(CimtScaled(v))
    /\ ValidVitals =>
        /\ pc \in {"cimt", "brain", "epwv", "fuse", "tier"} => Defined(ER)
        /\ pc \in {"brain", "epwv", "fuse", "tier"} => Defined(CR)
        /\ (entry = "app" /\ pc \in {"epwv", "fuse", "tier"}) => Defined(BR)
        /\ pc \in {"fuse", "tier"} => Defined(PR)
        /\ pc = "tier" =>
            /\ StrokeRiskScore = FuseApp(ER, CR, BR, PR)
            /\ StrokeRiskScore \in 0..100000
        /\ (entry = "app" /\ pc = "done" /\ status = "200") => Fused

\* age 120, a negative regression value and the "abnormal" brain class: all
\* four signals are numbers and the score is there
C18_Witness ==
    /\ entry = "app" /\ pc = "tier"
    /\ age = 120 /\ SBP = 300 /\ DBP = 200
    /\ cimt_pred = -10000 /\ CR = 0
    /\ brain_class = "abnormal" /\ BR = 90
    /\ Defined(ER) /\ Defined(PR)
    /\ StrokeRiskScore = FuseApp(ER, CR, BR, PR)
\* ---- image resolution of a subject
\* the values of the candidate path fields, in field order, that are strings
\* naming a file of the image directory
Resolved(e) ==
    LET vals == [i \in 1..Len(ImageKeys) |-> Get(e.m, ImageKeys[i])]
        Names(v) == v[1] = "str" /\ v[2] \in img_dir
    IN  SelectSeq(vals, Names)

\* the positions, in the suffix order, of the suffixes x for which
\* <sid><x> is in the image directory
SuffixesOnDisk(e) ==
    {j \in 1..Len(Suffixes) : (e.sid \o Suffixes[j]) \in img_dir}

\* C21: for a subject whose target was accepted, every candidate path field
\* that names an existing file gives one sample with the subject's target, in
\* field order; the <sid><suffix> fallback gives a sample only when no
\* candidate field resolved, and then exactly one, for the first suffix of the
\* fixed order that exists; with nothing on disk there is no sample.
C21_CandidatesThenFirstFallback ==
    \A i \in 1..Len(log) :
        LET e == log[i]
            r == Resolved(e)
            on == SuffixesOnDisk(e)
        IN  e.kept =>
              IF r # <<>>
              THEN e.rows = [k \in 1..Len(r) |-> <<r[k][2], e.cimt>>]
              ELSE IF on # {}
              THEN LET j == CHOOSE x \in on : \A y \in on : x <= y
                   IN  e.rows = <<<<e.sid \o Suffixes[j], e.cimt>>>>
              ELSE e.rows = <<>>

\* subject s1 has two candidate fields that resolve and fallback files on
\* disk, and gives the two candidate samples only; subject s2 names a missing
\* file, has s2.jpg and s2.jpeg on disk, and gives the one sample s2.jpg
C21_Witness ==
    /\ dpc = "ready"
    /\ \E i, j \in 1..Len(log) :
        /\ log[i].sid = "s1" /\ log[i].kept
        /\ Len(Resolved(log[i])) = 2 /\ SuffixesOnDisk(log[i]) = {1, 2}
        /\ log[i].rows = <<<<"a.png", 70000>>, <<"b.png", 70000>>>>
        /\ log[j].sid = "s2" /\ log[j].kept
        /\ Candidates(log[j].m) = <<"missing.png">>
        /\ SuffixesOnDisk(log[j]) = {6, 7}
        /\ log[j].rows = <<<<"s2.jpg", 70000>>>>

\* ---- the end-to-end example: age 45, SBP 130, DBP 85, eye CRVO,
\* CIMT 0.55 mm, brain abnormal
\* the call has the example's vitals and the formula has been computed
ExampleVitals ==
    /\ entry = "app" /\ age = 45 /\ SBP = 130 /\ DBP = 85
    /\ "calculate_ePWV_scale" \in calls

\* the example's predictions have been fused
ExampleFused ==
    /\ ExampleVitals
    /\ eye_class = "CRVO" /\ cimt_pred = 55000 /\ brain_class = "abnormal"
    /\ StrokeRiskScore # None

\* the band and the sum of the example, whatever the mean pressure is
ExampleBandAndSum ==
    /\ ExampleVitals =>
        /\ BandLow(age) = 9 /\ BandHigh(age) = 10
        /\ PR = EpwvBucket(age, SBP, DBP, 9, 10)
    /\ ExampleFused =>
        /\ ER = 80 /\ CR = 20 /\ BR = 90
        /\ StrokeRiskScore = 10 * (22 * 80 + 35 * 20 + 10 * 90 + 33 * PR)

\* C22: MBP = DBP + 0.4*(SBP-DBP); for age 45, SBP 130, DBP 85 the mean
\* pressure is 88, the band 40-59 with thresholds {9, 10} is applied, and the
\* score with eye CRVO (0.80), CIMT 0.55 mm (0.20), brain abnormal (0.90) is
\* 0.22*0.80 + 0.35*0.20 + 0.10*0.90 + 0.33*epwv_scalar.
C22_ExampleMeanPressure88 ==
    /\ ExampleVitals => MBP5(SBP, DBP) = 5 * 88
    /\ ExampleBandAndSum

\* C22 as amended: the same with the mean pressure 103 = 85 + 0.4*45.
\* MBP5 is 5*MBP = 5*DBP + 2*(SBP-DBP) for every pair of pressures.
C22_ExampleMeanPressure103 ==
    /\ (~IsNaN(SBP) /\ ~IsNaN(DBP)) =>
           MBP5(SBP, DBP) = 5 * DBP + 2 * (SBP - DBP)
    /\ ExampleVitals => MBP5(SBP, DBP) = 5 * 103
    /\ ExampleBandAndSum

\* the example answered: ePWV is below 9, the scalar 0.20, the score 0.402
C22_Witness ==
    /\ ExampleFused /\ pc = "done" /\ status = "200"
    /\ PR = 20
    /\ StrokeRiskScore = 40200
    /\ risk_level = "Medium"

\* ---- the geometry of load_preprocess
\* the image was read and the resized dimensions computed
Measured == ppc \in {"returned", "raised"} /\ readable

\* the resized dimensions are within 1..size, the offsets are the floors of
\* the halves of what is left, and the pasted region is inside the canvas
GeometryInsideCanvas ==
    /\ ppc = "returned"
    /\ nh \in 1..size /\ nw \in 1..size
    /\ 2 * top <= size - nh /\ size - nh < 2 * top + 2
    /\ 2 * left <= size - nw /\ size - nw < 2 * left + 2
    /\ 0 <= top /\ top + nh <= size
    /\ 0 <= left /\ left + nw <= size

\* the canvas is the input image: it is covered from (0, 0) by the input's
\* own pixels
CanvasIsInput ==
    /\ top = 0 /\ left = 0 /\ nh = size /\ nw = size
    /\ pasted = "input"

\* C23: for every image height h >= 1, width w >= 1 and target size s, the
\* resized dimensions nh, nw are between 1 and s, the offsets are
\* floor((s-nh)/2) and floor((s-nw)/2) and the pasted region lies inside the
\* canvas; with h = w = s the offsets are (0, 0) and the canvas equals the
\* input image.
C23_PreprocessGeometry ==
    Measured =>
        /\ GeometryInsideCanvas
        /\ (img_h = size /\ img_w = size) => CanvasIsInput

\* the same for the images whose longer side is less than 2*size times the
\* shorter one: there the shorter side does not round to 0
GeometryForModerateAspect ==
    LET long == Max(img_h, img_w)
        short == IF img_h >= img_w THEN img_w ELSE img_h
    IN  (Measured /\ long < 2 * size * short) =>
            /\ GeometryInsideCanvas
            /\ (img_h = size /\ img_w = size) => CanvasIsInput

\* a 1024 x 1 image and size 512: the width rounds to 0 (round(0.5) is 0)
\* and cv2.resize raises
ThinImageWidthZero ==
    /\ ppc = "raised" /\ readable
    /\ img_h = 1024 /\ img_w = 1 /\ size = 512
    /\ nh = 512 /\ nw = 0
    /\ prep_error = "cv2.error"

\* a 512 x 512 image and size 512 comes back as it is
SquareSizedImageUnchanged ==
    /\ ppc = "returned" /\ img_h = 512 /\ img_w = 512 /\ size = 512
    /\ CanvasIsInput

\* ---- the targets of the samples
Finite(x) == x \notin {NaN, Inf}

\* C24: every sample of a built regression dataset has a finite target;
\* no record content, values that parse as NaN or infinity included, gives a
\* sample whose target is NaN or not finite.
C24_TargetsFinite ==
    \A r \in Range(rows_tr) \cup Range(rows_va) : Finite(r[2])

\* every sample carries what float() returned for its subject, and a target
\* that is not finite comes from a record whose value parses as nan or inf
TargetsAreWhatFloatReturned ==
    \A i \in 1..Len(log) :
        /\ \A k \in 1..Len(log[i].rows) : log[i].rows[k][2] = log[i].cimt
        /\ (log[i].kept /\ ~Finite(log[i].cimt)) =>
               RawTarget(log[i].m, target_key)[2] \in {"nan", "inf"}

\* the record {"thickness": null, "cimt_mm": "nan", "image": "a.png"} gave
\* the training sample (a.png, nan)
NanTargetSample ==
    /\ dpc = "ready"
    /\ \E i \in 1..Len(log) :
        /\ log[i].side = "train_ds" /\ log[i].kept
        /\ log[i].m = [thickness |-> PyNone, cimt_mm |-> Str("nan"),
                        image |-> Str("a.png")]
        /\ log[i].rows = <<<<"a.png", NaN>>>>
    /\ <<"a.png", NaN>> \in Range(rows_tr)

\* ---- the models_loaded flag
Predictors ==
    {"predict_eye_stroke", "predict_cimt", "predict_brain_stroke",
     "calculate_ePWV_scale"}

\* C25: over any sequence of prediction requests the flag models_loaded only
\* goes from FALSE to TRUE, and only in a load whose import succeeded; a
\* request that gets to load_models while the flag is FALSE attempts the
\* import (a failing import leaves the flag FALSE and ends the request with a
\* 500), with the flag TRUE no import is attempted, and no predictor of the
\* API is called while the flag is FALSE.
C25_LazyLoadFlag ==
    [][ /\ (models_loaded' # models_loaded) =>
            /\ ~models_loaded /\ models_loaded'
            /\ pc = "load" /\ pc' = "eye"
            /\ "import models" \in calls'
        /\ (pc = "load" /\ ~models_loaded) =>
            /\ {"load_models", "import models"} \subseteq calls'
            /\ \/ models_loaded' /\ pc' = "eye"
               \/ ~models_loaded' /\ pc' = "done" /\ status' = "500"
        /\ (pc = "load" /\ models_loaded) =>
            /\ "load_models" \in calls' /\ "import models" \notin calls'
            /\ models_loaded' /\ pc' = "eye"
        /\ (entry' = "app" /\ calls' \cap Predictors # {}) => models_loaded'
      ]_vars

\* a request answered with the flag already TRUE: load_models was called and
\* made no import
C25_Witness ==
    /\ entry = "app" /\ pc = "done" /\ status = "200"
    /\ models_loaded
    /\ {"load_models"} \cup Predictors \subseteq calls
    /\ "import models" \notin calls

\* a request that failed in the import: 500, the flag still FALSE, no
\* predictor called
FailedImportLeavesFlagFalse ==
    /\ entry = "app" /\ pc = "done" /\ status = "500"
    /\ ~models_loaded
    /\ "import models" \in calls /\ calls \cap Predictors = {}

\* ---- the temporary file of a request
\* the request is over and its response (or error) decided
RequestCompleted == entry = "app" /\ pc = "done"

\* C26: after a predict_risk request completes, with a success response, a
\* validation error, a failure while the upload is read or a failure inside
\* the prediction, no temporary file made for it is left on disk.
C26_NoTempFileAfterRequest ==
    RequestCompleted => ~tmp_file

\* the file is gone after every request that was refused by validation, that
\* was answered, or that failed inside predict_stroke_risk; a file that is
\* left belongs to a request that failed before predict_stroke_risk was
\* entered
TempFileLeftOnlyByFailedUpload ==
    /\ (RequestCompleted /\ status \in {"200", "400"}) => ~tmp_file
    /\ (RequestCompleted /\ "load_models" \in calls) => ~tmp_file
    /\ (RequestCompleted /\ tmp_file) =>
           (status = "500" /\ calls = {"NamedTemporaryFile"})

\* the upload could not be read: the request ended with a 500 and the
\* temporary file it made is still there
FailedUploadLeavesTempFile ==
    /\ RequestCompleted /\ status = "500"
    /\ calls = {"NamedTemporaryFile"}
    /\ tmp_file

\* ---- the saved artifact
\* C27: when a training run reaches its final save the file holds a parameter
\* snapshot, never None: with at least one epoch the first epoch's metric
\* strictly improves on the initial best (-1.0 for macro-F1, 1e9 for MAE),
\* and this holds for every configured number of epochs, 0 included.
C27_ArtifactNeverNone ==
    /\ tpc = "saved" => artifact # <<None>>
    /\ (tpc \in {"loop", "saved"} /\ hist # <<>>) =>
           (1 \in replaced /\ best_state # None)

\* with at least one epoch a classifier's first macro-F1 is above -1.0 and
\* its file holds a snapshot; so does the regressor's when some epoch's MAE
\* is below 1e9
ArtifactOfAtLeastOneEpoch ==
    /\ (part \in {"A", "C"} /\ tpc \in {"loop", "saved"} /\ hist # <<>>) =>
           (1 \in replaced /\ best_state # None)
    /\ (part \in {"A", "C"} /\ tpc = "saved" /\ epochs >= 1) =>
           artifact # <<None>>
    /\ (part = "B" /\ tpc = "saved"
           /\ \E i \in 1..Len(hist) : hist[i] < InitBest("B")) =>
           artifact # <<None>>

\* training.epochs = 0: the loop body never ran and None was saved
ZeroEpochsSavesNone ==
    /\ tpc = "saved" /\ epochs = 0 /\ model_made
    /\ hist = <<>> /\ val_passes = 0
    /\ best_state = None /\ saves = 1
    /\ artifact = <<None>>

====
